---- MODULE Spec2Model ----
(***************************************************************************)
(* Lead acquisition pipeline of the LeadParser web app: the scrape route   *)
(* (POST /api/scrape) with its lead scorer, and the clear operation of the *)
(* leads route (DELETE /api/leads), over the key-value store they share.   *)
(*                                                                         *)
(* Conventions.  Ratings are held in tenths (3.5 is 35, 4.0 is 40).  A     *)
(* numeric JSON field that is missing is NoNum; a missing string field is  *)
(* the empty string (JavaScript's || and ! treat both alike).  A calendar  *)
(* date is a day number.  A string whose characters the code inspects (the *)
(* niche) is looked up as a sequence of characters.                        *)
(***************************************************************************)
EXTENDS Integers, Sequences, FiniteSets, TLC

VARIABLES
    store,      \* KV keys lead:<id>: place id -> lead record, or NoLead
    ids,        \* KV set leads:ids
    today,      \* the server's calendar date (no request of the model spans midnight)
    pc,         \* per scrape request: where the POST handler is
    rq,         \* per scrape request: the request body
    leads,      \* per scrape request: the local array `leads`
    tok,        \* per scrape request: nextPageToken is set
    attempts,   \* per scrape request: the local `attempts`
    nres,       \* per scrape request: places of the current page not yet visited
    cand,       \* per scrape request: the place being processed and its details
    cur,        \* per scrape request: the local `lead`, or NoLead
    existing,   \* per scrape request: the local `existing` is truthy
    scored,     \* per scrape request: calculateLeadScore ran for the current place
    resp,       \* per scrape request: the response returned
    found,      \* history: times a place id was taken as new since its record was last deleted
    cpc,        \* the DELETE handler: where it is
    cleft,      \* the DELETE handler: ids of its smembers snapshot not yet deleted
    cquiet,     \* history: no scrape request has run since the DELETE handler started
    broke,      \* per scrape request: the page loop was left by the break of line 102
    key,        \* per scrape request: the local `apiKey`: "unread", "missing" or "set"
    queries,    \* history, per scrape request: page queries it has issued
    added,      \* history, per scrape request: leads it has written with their index entry
    spc,        \* scorer harness: "in" before the call, "out" after
    sin,        \* scorer harness: the arguments
    sout,       \* scorer harness: the running score after each section, and the result
    vlast,      \* read routes: the last response of list, stats or export
    vleads,     \* read routes: the local array `leads` of the last call, as ids
    xprev,      \* read routes: the body of the export response before the last one
    vreq,       \* read routes: the request being handled, its ids left to get, its local `leads`
    chain,      \* enrichment chain: the providers' answers, the next provider, the result
    home,       \* single-app page: isScraping, scrapeProgress and its startScraping calls
    dash        \* polling dashboard: status, its scrape and status requests, the server's run

vars == <<store, ids, today, pc, rq, leads, tok, attempts, nres, cand, cur,
          existing, scored, resp, found, cpc, cleft, cquiet, broke, key, added,
          queries, spc, sin, sout, vlast, vleads, xprev, vreq, chain, home,
          dash>>
pipeVars == <<store, ids, today, pc, rq, leads, tok, attempts, nres, cand, cur,
              existing, scored, resp, found, cpc, cleft, cquiet, broke, key,
              added, queries>>
scoreVars == <<spc, sin, sout>>
viewVars == <<vlast, vleads, xprev, vreq>>
uiVars == <<home, dash>>

----------------------------------------------------------------------------
(* Bounds of the model *)

MaxReviews == 52
MaxRating == 50
MaxResults == 2
ConcMaxResults == 1
MaxFound == 2
MaxProviders == 3
\* Clicks on a Start button that get past the button and the first line of
\* startScraping
MaxClicks == 3
\* Calls of the dashboard's fetchData that await their requests at a time
MaxFetches == 2

NoNum == 0 - 1

Min(a, b) == IF a < b THEN a ELSE b

\* JavaScript `x || 0` on a number that may be missing
OrZero(x) == IF x = NoNum THEN 0 ELSE x

\* JavaScript `a || b` on numbers: a unless it is missing or 0
OrNum(a, b) == IF a = NoNum \/ a = 0 THEN b ELSE a

\* A string key an object does not carry (undefined)
NoStr == "<undefined>"

\* JavaScript `!s` on a string: it is missing or empty
Falsy(s) == s = NoStr \/ s = ""

\* JavaScript `a || b` on strings: a unless it is missing or empty
OrStr(a, b) == IF Falsy(a) THEN b ELSE a

----------------------------------------------------------------------------
(* Strings the code inspects character by character; Head, Tail, SubSeq,
   Len and \o act on a string as on the sequence of its characters *)

UpperChars == <<"A","B","C","D","E","F","G","H","I","J","K","L","M",
                "N","O","P","Q","R","S","T","U","V","W","X","Y","Z">>
LowerChars == <<"a","b","c","d","e","f","g","h","i","j","k","l","m",
                "n","o","p","q","r","s","t","u","v","w","x","y","z">>

ToLowerChar(c) ==
    IF \E i \in 1..Len(UpperChars) : UpperChars[i] = c
    THEN LowerChars[CHOOSE i \in 1..Len(UpperChars) : UpperChars[i] = c]
    ELSE c

\* String.prototype.toLowerCase, on the letters A to Z
RECURSIVE toLowerCase(_)
toLowerCase(s) ==
    IF s = "" THEN "" ELSE ToLowerChar(Head(s)) \o toLowerCase(Tail(s))

\* String.prototype.includes
includes(s, t) ==
    \E k \in 0..(Len(s) - Len(t)) : SubSeq(s, k + 1, k + Len(t)) = t

highValueNiches ==
    <<"plumbers", "electricians", "roofing", "hvac", "auto detailing",
      "car detailing">>

----------------------------------------------------------------------------
(* The scorer: calculateLeadScore(place, niche) *)

\* Review count scoring, with the sign of the last band flipped
ReviewTermNeg(reviews) ==
    IF reviews = 0 THEN 10
    ELSE IF reviews <= 10 THEN 8
    ELSE IF reviews <= 25 THEN 5
    ELSE IF reviews <= 50 THEN 3
    ELSE 0 - 1

\* Review count scoring, with the first boundary exclusive
ReviewTermOff(reviews) ==
    IF reviews = 0 THEN 10
    ELSE IF reviews < 10 THEN 8
    ELSE IF reviews <= 25 THEN 5
    ELSE IF reviews <= 50 THEN 3
    ELSE 1

ReviewTerm(reviews) ==
    IF reviews = 0 THEN 10
    ELSE IF reviews <= 10 THEN 8
    ELSE IF reviews <= 25 THEN 5
    ELSE IF reviews <= 50 THEN 3
    ELSE 1

\* Rating scoring, with the 3.5 boundary exclusive
RatingTermOff(rating) ==
    IF rating > 0 /\ rating < 35 THEN 9
    ELSE IF rating > 35 /\ rating <= 40 THEN 4
    ELSE 0

RatingTerm(rating) ==
    IF rating > 0 /\ rating <= 35 THEN 9
    ELSE IF rating > 35 /\ rating <= 40 THEN 4
    ELSE 0

\* The website bonus left out
WebsiteTermNone(website) == 0

\* The website bonus, with the test inverted
WebsiteTermInverted(website) == IF ~Falsy(website) THEN 3 ELSE 0

\* if (!place.website) score += 3
WebsiteTerm(website) == IF Falsy(website) THEN 3 ELSE 0

\* The niche bonus, added once for every entry of the list that matches
NicheTermPerMatch(niche) ==
    7 * Cardinality({i \in 1..Len(highValueNiches) :
            includes(toLowerCase(niche), highValueNiches[i])})

NicheTerm(niche) ==
    IF \E i \in 1..Len(highValueNiches) :
          includes(toLowerCase(niche), highValueNiches[i])
    THEN 7 ELSE 0

\* The running score after each section of calculateLeadScore
ScoreSteps(place, niche) ==
    LET reviews == OrZero(place.user_ratings_total)
        rating == OrZero(place.rating)
        s1 == 0 + ReviewTerm(reviews)
        s2 == s1 + RatingTerm(rating)
        s3 == s2 + WebsiteTerm(place.website)
        s4 == s3 + NicheTerm(niche)
    IN  <<s1, s2, s3, s4>>

\* The result, with Math.max in place of Math.min
calculateLeadScoreMax(place, niche) ==
    IF ScoreSteps(place, niche)[4] > 30 THEN ScoreSteps(place, niche)[4] ELSE 30

calculateLeadScore(place, niche) == Min(ScoreSteps(place, niche)[4], 30)

----------------------------------------------------------------------------
(* Tiers derived from a lead_score *)

\* The medium filter without its lower bound
FilterKeepsMediumOpen(filter, score) ==
    /\ ~(filter = "hot" /\ score < 18)
    /\ ~(filter = "warm" /\ (score < 12 \/ score >= 18))
    /\ ~(filter = "medium" /\ score >= 12)

\* The leads route: whether a lead of this score passes the filter
FilterKeeps(filter, score) ==
    /\ ~(filter = "hot" /\ score < 18)
    /\ ~(filter = "warm" /\ (score < 12 \/ score >= 18))
    /\ ~(filter = "medium" /\ (score < 7 \/ score >= 12))

\* The hot counter starting above 18
StatsBucketAbove(score) ==
    IF score > 18 THEN "hot" ELSE IF score >= 12 THEN "warm" ELSE "none"

\* The stats route: the counter a lead of this score adds to, besides total
StatsBucket(score) ==
    IF score >= 18 THEN "hot" ELSE IF score >= 12 THEN "warm" ELSE "none"

\* The single-app page: the badge label
getTier(score) ==
    IF score >= 18 THEN "HOT" ELSE IF score >= 12 THEN "WARM" ELSE "MED"

\* The polling dashboard: the badge label
getTierDashboard(score) ==
    IF score >= 18 THEN "HOT" ELSE IF score >= 12 THEN "WARM" ELSE "MED"

----------------------------------------------------------------------------
(* Scorer harness: one call of calculateLeadScore on arguments drawn from  *)
(* bounded sets                                                            *)

ScoreNiches ==
    {"plumbers", "Plumbers", "bakery", "HVAC repair", "plumber", "hvac plumbers",
     "Auto Detailing", "car detailing shop"}
ScoreWebsites == {NoStr, "", "http://x.com"}

ScoreInputs ==
    [user_ratings_total : {NoNum} \cup (0..MaxReviews),
     rating : {NoNum} \cup (0..MaxRating),
     website : ScoreWebsites,
     niche : ScoreNiches]

NoScore == [steps |-> <<>>, score |-> NoNum]

NoScoreInput == [niche |-> ""]

ScoreCall ==
    /\ spc = "in"
    /\ spc' = "out"
    /\ sout' = [steps |-> ScoreSteps(sin, sin.niche),
                score |-> calculateLeadScore(sin, sin.niche)]
    /\ UNCHANGED <<sin, pipeVars, viewVars, chain, uiVars>>

----------------------------------------------------------------------------
(* The scrape route: POST /api/scrape *)

PlaceIds == {"p1", "p2"}
Runs == {1, 2}

NoLead == [id |-> ""]
NoCand == [place_id |-> ""]
NoReq == [niche |-> "", city |-> "", state |-> "", limit |-> 0]

CeilDiv(a, b) == (a + b - 1) \div b

\* const maxAttempts = Math.ceil(limit / 20)
maxAttempts(limit) == CeilDiv(limit, 20)

\* The fallback link built from the place id
DefaultLink(id) == "https://www.google.com/maps/place/?q=place_id:" \o id

\* { ...place, ...details }, the keys the scorer reads: a key of details
\* wins when details carries it, else the key of the text search result
Merged(place, details) ==
    [user_ratings_total |->
        IF details.user_ratings_total # NoNum THEN details.user_ratings_total
        ELSE place.user_ratings_total,
     rating |-> IF details.rating # NoNum THEN details.rating ELSE place.rating,
     website |-> IF details.website # NoStr THEN details.website
                 ELSE place.website]

\* The filter, without the phone test
QualifiesNoPhone(details) == Falsy(details.website)

\* The filter, without the website test
QualifiesNoSite(details) == ~Falsy(details.formatted_phone_number)

\* if (!details.website && details.formatted_phone_number)
Qualifies(details) ==
    Falsy(details.website) /\ ~Falsy(details.formatted_phone_number)

\* The lead object built for a qualifying place, scored
BuildLead(place, details, q, day) ==
    [id |-> place.place_id,
     name |-> OrStr(details.name, place.name),
     phone |-> details.formatted_phone_number,
     niche |-> q.niche,
     city |-> q.city,
     state |-> q.state,
     address |-> OrStr(details.formatted_address,
                       OrStr(details.vicinity, OrStr(place.formatted_address, ""))),
     rating |-> OrNum(details.rating, OrNum(place.rating, 0)),
     review_count |-> OrNum(details.user_ratings_total,
                            OrNum(place.user_ratings_total, 0)),
     gmb_link |-> OrStr(details.url,
                        OrStr(place.url, DefaultLink(place.place_id))),
     website |-> "",
     lead_score |-> calculateLeadScore(Merged(place, details), q.niche),
     date_added |-> day]

\* Whether the handler gets as far as building and scoring a lead for the place
ScoredAlways(status, details) == status = "OK"

ReachesScoring(status, details) == status = "OK" /\ Qualifies(details)

\* const existing = await kv.get(`lead:${lead.id}`), taken as a condition;
\* the mutant answers as if the key were never there
ExistingNever(id) == FALSE

Existing(id) == store[id] # NoLead

----------------------------------------------------------------------------
(* The read routes: GET /api/leads, GET /api/stats, GET /api/export *)

ViewIds == {"p1", "p2", "p3"}

\* No response yet; `threw` tells that a kv call of the request rejected,
\* `param` is the filter parameter of a list request
NoView ==
    [kind |-> "none", param |-> "", status |-> 0, threw |-> FALSE,
     body |-> <<>>]
NoBody == <<>>

\* No read request is being handled
NoRead ==
    [pc |-> "idle", kind |-> "none", param |-> "", left |-> <<>>,
     loaded |-> <<>>]

\* searchParams.get('filter') || 'all'
Filters == {"", "hot", "warm", "medium", "cold"}
FilterOf(param) == OrStr(param, "all")

\* Details bodies and niches the stored leads were built from, with the day
\* they were added; the scores they get are 6, 8, 12, 17, 18 and 29. The
\* last is a business that has a name neither in its details nor in the
\* search result
ViewProfiles ==
    {[name |-> "Bolt Electric", listed |-> "Acme Plumbing",
      reviews |-> 30, rating |-> NoNum,
      niche |-> "bakery", day |-> 0],
     [name |-> "Bolt Electric", listed |-> "Acme Plumbing",
      reviews |-> 20, rating |-> NoNum,
      niche |-> "bakery", day |-> 1],
     [name |-> "Bolt Electric", listed |-> "Acme Plumbing",
      reviews |-> 20, rating |-> 38,
      niche |-> "bakery", day |-> 1],
     [name |-> "Bolt Electric", listed |-> "Acme Plumbing",
      reviews |-> 0, rating |-> 40,
      niche |-> "bakery", day |-> 1],
     [name |-> "Al \"Doc\" Smith", listed |-> "Acme Plumbing",
      reviews |-> 5, rating |-> NoNum,
      niche |-> "plumbers", day |-> 1],
     [name |-> "Bolt Electric", listed |-> "Acme Plumbing",
      reviews |-> 0, rating |-> 32,
      niche |-> "plumbers", day |-> 0],
     [name |-> NoStr, listed |-> NoStr,
      reviews |-> 5, rating |-> 40,
      niche |-> "plumbers", day |-> 1]}

\* The lead the scrape handler stores for a place with such details
ViewLead(id, prof) ==
    BuildLead([place_id |-> id, name |-> prof.listed, rating |-> NoNum,
               user_ratings_total |-> NoNum,
               formatted_address |-> "1 Main St, Houston", url |-> "",
               website |-> NoStr],
              [name |-> prof.name, formatted_phone_number |-> "555-1234",
               website |-> NoStr, formatted_address |-> "",
               vicinity |-> "Main St", rating |-> prof.rating,
               user_ratings_total |-> prof.reviews, url |-> ""],
              [niche |-> prof.niche, city |-> "Houston", state |-> "TX",
               limit |-> 100],
              prof.day)

\* Stores the handlers can leave behind: each record is one the scrape
\* handler wrote; a record may lack its index entry and an index entry its
\* record, as interleaved scrape and DELETE requests leave them
ViewStores ==
    {s \in [ViewIds -> {NoLead} \cup
                       UNION {{ViewLead(p, prof) : prof \in ViewProfiles} :
                              p \in ViewIds}] :
        \A p \in ViewIds : s[p] # NoLead => s[p].id = p}

\* The orders kv.smembers may return the members of a set in
Orders(S) ==
    {q \in [1..Cardinality(S) -> S] :
        \A i, j \in 1..Cardinality(S) : q[i] = q[j] => i = j}

\* for (const id of leadIds) { const data = await kv.get(`lead:${id}`);
\* if (data) ... leads.push(lead) }, with the list route's filter
RECURSIVE LoadLeads(_, _)
LoadLeads(order, filter) ==
    IF order = <<>> THEN <<>>
    ELSE LET data == store[Head(order)]
             rest == LoadLeads(Tail(order), filter)
         IN IF data # NoLead /\ FilterKeeps(filter, OrZero(data.lead_score))
            THEN <<data>> \o rest
            ELSE rest

\* The comparator with the operands swapped: ascending
CompareAscending(a, b) == OrZero(a.lead_score) - OrZero(b.lead_score)

\* (a, b) => (b.lead_score || 0) - (a.lead_score || 0)
Compare(a, b) == OrZero(b.lead_score) - OrZero(a.lead_score)

\* Array.prototype.sort is stable: an element goes behind every element the
\* comparator does not put after it
RECURSIVE InsertSorted(_, _)
InsertSorted(x, s) ==
    IF s = <<>> THEN <<x>>
    ELSE IF Compare(Head(s), x) <= 0
         THEN <<Head(s)>> \o InsertSorted(x, Tail(s))
         ELSE <<x>> \o s

RECURSIVE SortLeads(_)
SortLeads(s) ==
    IF s = <<>> THEN <<>>
    ELSE InsertSorted(s[Len(s)], SortLeads(SubSeq(s, 1, Len(s) - 1)))

IdsOf(s) == [i \in 1..Len(s) |-> s[i].id]

\* The body of the list response
ListBody(order, filter) ==
    IF order = <<>> THEN <<>> ELSE SortLeads(LoadLeads(order, filter))

\* The counters of the stats response, over the records the loop got
StatsOf(loaded) ==
    LET all == 1..Len(loaded)
        bucket(i) == StatsBucket(OrZero(loaded[i].lead_score))
    IN [total |-> Cardinality(all),
        hot |-> Cardinality({i \in all : bucket(i) = "hot"}),
        warm |-> Cardinality({i \in all : bucket(i) = "warm"}),
        new_this_session |->
            Cardinality({i \in all : loaded[i].date_added = today})]

\* The body of the stats response of a request during which the store does
\* not change
StatsBody(order) == StatsOf(LoadLeads(order, "all"))

\* const headers = [...]
headers ==
    <<"name", "phone", "niche", "city", "state", "address", "rating",
      "review_count", "lead_score", "gmb_link">>
NumericFields == {"rating", "review_count", "lead_score"}

\* .replace(/"/g, '\\"'): a backslash before every double quote
RECURSIVE EscapeQuotes(_)
EscapeQuotes(s) ==
    IF s = "" THEN ""
    ELSE (IF Head(s) = "\"" THEN "\\\"" ELSE Head(s)) \o EscapeQuotes(Tail(s))

\* Number.prototype.toString; a rating is kept in tenths
NumText(h, n) ==
    IF h = "rating" /\ n % 10 # 0
    THEN ToString(n \div 10) \o "." \o ToString(n % 10)
    ELSE IF h = "rating" THEN ToString(n \div 10) ELSE ToString(n)

\* `"${(lead[h] || '').toString().replace(/"/g, '\\"')}"`
Cell(lead, h) ==
    LET text == IF h \in NumericFields
                THEN IF lead[h] = 0 \/ lead[h] = NoNum THEN ""
                     ELSE NumText(h, lead[h])
                ELSE EscapeQuotes(OrStr(lead[h], ""))
    IN "\"" \o text \o "\""

\* The lines of the CSV, each as its comma separated columns
CsvRows(sorted) ==
    <<headers>> \o
    [i \in 1..Len(sorted) |-> [k \in 1..Len(headers) |-> Cell(sorted[i], headers[k])]]

\* The read routes call kv.smembers and kv.get only; the variant takes ids
\* without a record out of the index
IndexAfterReadPruned(index) == {p \in index : store[p] # NoLead}

IndexAfterRead(index) == index

----------------------------------------------------------------------------
(* The enrichment chain, as the specification words it (section 4.2): the
   providers are tried in configured order for a candidate that lacks a
   phone, a provider that fails or times out counts as not found, and the
   chain stops at the first provider that supplies the phone *)

\* What a provider lookup can come to
Outcomes == {"not-found", "error", "timeout", "555-1234", "555-9999"}

\* The configured providers, each by what its lookup comes to
ProviderLists == UNION {[1..n -> Outcomes] : n \in 0..MaxProviders}

NoChain ==
    [pc |-> "idle", answers |-> <<>>, next |-> 1, phone |-> "", called |-> <<>>]

\* Every outcome taken as the field
SuppliesAlways(outcome) == TRUE

\* The lookup supplied the phone: it neither found nothing nor failed
Supplies(outcome) == outcome \notin {"not-found", "error", "timeout"}

\* The next provider is invoked
ChainLookup ==
    /\ chain.pc = "run"
    /\ chain.next <= Len(chain.answers)
    /\ LET outcome == chain.answers[chain.next]
           invoked == [chain EXCEPT !.called = Append(@, chain.next)]
       IN chain' = IF Supplies(outcome)
                   THEN [invoked EXCEPT !.phone = outcome, !.pc = "done"]
                   ELSE [invoked EXCEPT !.next = @ + 1]
    /\ UNCHANGED <<pipeVars, scoreVars, viewVars, uiVars>>

\* No provider is left
ChainExhausted ==
    /\ chain.pc = "run"
    /\ chain.next > Len(chain.answers)
    /\ chain' = [chain EXCEPT !.pc = "done"]
    /\ UNCHANGED <<pipeVars, scoreVars, viewVars, uiVars>>

-----------------------------------------------------------------------------
(* The single-app page (part_001, Home): the Start button, startScraping
   and the scrape request it awaits *)

\* useState(false) for isScraping, useState({current: 0, total: 100,
\* message: ''}) for scrapeProgress; `calls` holds one entry per
\* startScraping call that went past its first line: where the call waits,
\* the body it sent, and whether isScraping was set when it sent the request
NoHome ==
    [isScraping |-> FALSE,
     scrapeProgress |-> [current |-> 0, total |-> 100, message |-> ""],
     calls |-> <<>>]

\* The form fields a click finds
FormNiches == {"", "plumbers"}
FormCities == {"", "Houston"}
FormStates == {"", "TX"}
FormLimits == {50, 100, 200}

\* The bodies POST /api/scrape answers with: { success: true, leads_found,
\* leads } (line 166), and an error body without a success key from lines
\* 73, 79 and 172; success FALSE and leads_found NoNum stand for the keys
\* an error body lacks, error NoStr for the one a success body lacks
ScrapePayloads ==
    {[status |-> 200, success |-> TRUE, leads_found |-> n, error |-> NoStr] :
        n \in {0, 2, 5}}
    \cup
    {[status |-> st[1], success |-> FALSE, leads_found |-> NoNum,
      error |-> st[2]] :
        st \in {<<400, "Missing required fields">>,
                <<500, "API key not configured">>,
                <<500, "Scraping failed">>}}

\* The bodies the route can answer a request of these fields with: line 72
\* answers 400 when one of them is missing, and only then
ScrapeAnswers(niche, city, state) ==
    {data \in ScrapePayloads :
        data.status = 400 <=> (Falsy(niche) \/ Falsy(city) \/ Falsy(state))}

\* A button that never disables
ButtonDisabledNever(flag) == FALSE

\* disabled={isScraping} (part_001), disabled={status.is_running} (App.jsx)
ButtonDisabled(flag) == flag

\* A reset that only the paths through the try block reach
AfterSettleTryOnly(path) == path = "catch"

\* finally { setIsScraping(false) }: isScraping after the request settled
\* through the success branch, the error branch or the catch block
AfterSettle(path) == FALSE

\* The calls of startScraping that still await their request
HomeAwaiting == {i \in 1..Len(home.calls) : home.calls[i].pc # "settled"}

\* Lines 245-254 and 501-507: a click on the enabled Start button runs
\* startScraping up to its first await
HomeStart(niche, city, state, limit) ==
    /\ ~ButtonDisabled(home.isScraping)
    /\ Len(home.calls) < MaxClicks
    /\ IF niche = "" \/ city = "" \/ state = ""
       THEN UNCHANGED home
       ELSE LET flagged ==
                    [home EXCEPT
                        !.isScraping = TRUE,
                        !.scrapeProgress =
                            [current |-> 0, total |-> limit,
                             message |-> "Starting..."]]
            IN home' =
                   [flagged EXCEPT
                       !.calls =
                           Append(@, [pc |-> "fetch", niche |-> niche,
                                      city |-> city, state |-> state,
                                      limit |-> limit,
                                      flagged |-> flagged.isScraping,
                                      path |-> "none"])]
    /\ UNCHANGED <<pipeVars, scoreVars, viewVars, chain, dash>>

\* Line 251: the fetch promise resolves with a response
HomeFetched(i) ==
    /\ i \in 1..Len(home.calls)
    /\ home.calls[i].pc = "fetch"
    /\ home' = [home EXCEPT !.calls[i].pc = "json"]
    /\ UNCHANGED <<pipeVars, scoreVars, viewVars, chain, dash>>

\* Lines 257-269, 272-274: res.json() resolves with the payload
HomeSettled(i, data) ==
    /\ i \in 1..Len(home.calls)
    /\ home.calls[i].pc = "json"
    /\ data \in ScrapeAnswers(home.calls[i].niche, home.calls[i].city,
                              home.calls[i].state)
    /\ LET limit == home.calls[i].limit
       IN home' =
              [home EXCEPT
                  !.calls[i].pc = "settled",
                  !.calls[i].path = IF data.success THEN "success" ELSE "error",
                  !.scrapeProgress =
                      IF data.success
                      THEN [current |-> limit, total |-> limit,
                            message |->
                                "Found " \o ToString(data.leads_found)
                                    \o " new leads!"]
                      ELSE [current |-> 0, total |-> limit,
                            message |-> OrStr(data.error, "Failed")],
                  !.isScraping =
                      AfterSettle(IF data.success THEN "success" ELSE "error")]
    /\ UNCHANGED <<pipeVars, scoreVars, viewVars, chain, dash>>

\* Lines 270-274: the fetch promise or res.json() rejects
HomeRejected(i) ==
    /\ i \in 1..Len(home.calls)
    /\ home.calls[i].pc \in {"fetch", "json"}
    /\ home' =
           [home EXCEPT
               !.calls[i].pc = "settled",
               !.calls[i].path = "catch",
               !.scrapeProgress =
                   [current |-> 0, total |-> home.calls[i].limit,
                    message |-> "Network error"],
               !.isScraping = AfterSettle("catch")]
    /\ UNCHANGED <<pipeVars, scoreVars, viewVars, chain, dash>>

-----------------------------------------------------------------------------
(* The polling dashboard (App.jsx): the Start button, startScraping,
   checkStatus and its timer.  The server behind /api/scrape and
   /api/status is not part of the sources; it is taken as the specification
   words it (section 9): a run in the background whose progress snapshot the
   UI polls *)

\* useState({is_running: false, ...}) for status, useState(null) for error
\* (null is the empty string here); `posts` holds one entry per
\* startScraping call, `polls` one entry per chain of checkStatus calls:
\* where it waits, the body of a response whose res.json() it awaits, and
\* what its last status request came to; `fetches` counts
\* the fetchData calls that await their requests; `server` is the run on
\* the server
NoDash ==
    [status |-> [is_running |-> FALSE],
     error |-> "",
     posts |-> <<>>,
     polls |-> <<>>,
     fetches |-> 0,
     server |-> "idle"]

\* A poll loop that goes on whatever the status says
PollAgainAlways(data) == TRUE

\* Line 261: if (data.is_running)
PollAgain(data) == data.is_running

\* The snapshot /api/status answers with
StatusPayload == [is_running |-> dash.server = "running"]

\* Lines 276-282 and 351-355: a click on the enabled Start button runs
\* startScraping up to its await
DashStart ==
    /\ ~ButtonDisabled(dash.status.is_running)
    /\ Len(dash.posts) < MaxClicks
    /\ dash' = [dash EXCEPT !.posts = Append(@, "fetch")]
    /\ UNCHANGED <<pipeVars, scoreVars, viewVars, chain, home>>

\* The server takes the scrape request and starts its run
DashServed(i) ==
    /\ i \in 1..Len(dash.posts)
    /\ dash.posts[i] = "fetch"
    /\ dash' = [dash EXCEPT !.posts[i] = "served", !.server = "running"]
    /\ UNCHANGED <<pipeVars, scoreVars, viewVars, chain, home>>

\* Lines 278-286: the fetch promise resolves with res.ok; checkStatus is
\* called and sends its request
DashPosted(i) ==
    /\ i \in 1..Len(dash.posts)
    /\ dash.posts[i] = "served"
    /\ dash' = [dash EXCEPT
                   !.posts[i] = "ok",
                   !.polls = Append(@, [pc |-> "fetch", body |-> <<>>,
                                        last |-> "none"])]
    /\ UNCHANGED <<pipeVars, scoreVars, viewVars, chain, home>>

\* Lines 284, 287-289: the scrape request rejects or is answered without
\* res.ok
DashPostFailed(i) ==
    /\ i \in 1..Len(dash.posts)
    /\ dash.posts[i] \in {"fetch", "served"}
    /\ dash' = [dash EXCEPT
                   !.posts[i] = "failed",
                   !.error = "Failed to start scraping. Is the API server running?"]
    /\ UNCHANGED <<pipeVars, scoreVars, viewVars, chain, home>>

\* Line 257: the fetch promise of the status request resolves, with the
\* snapshot the server took when it answered
DashPollFetched(j) ==
    /\ j \in 1..Len(dash.polls)
    /\ dash.polls[j].pc = "fetch"
    /\ dash' = [dash EXCEPT !.polls[j].pc = "json",
                            !.polls[j].body = <<StatusPayload>>]
    /\ UNCHANGED <<pipeVars, scoreVars, viewVars, chain, home>>

\* Lines 258-264: res.json() resolves with the body; setStatus(data), and
\* when data.is_running a timer for the next checkStatus and a call of
\* fetchData
DashPollAnswered(j) ==
    /\ j \in 1..Len(dash.polls)
    /\ dash.polls[j].pc = "json"
    /\ LET data == dash.polls[j].body[1]
       IN /\ PollAgain(data) => dash.fetches < MaxFetches
          /\ dash' = [dash EXCEPT
                         !.status = data,
                         !.polls[j] =
                             [pc |-> IF PollAgain(data) THEN "timer"
                                     ELSE "stopped",
                              body |-> <<>>,
                              last |-> IF data.is_running THEN "running"
                                       ELSE "idle"],
                         !.fetches = IF PollAgain(data) THEN @ + 1 ELSE @]
    /\ UNCHANGED <<pipeVars, scoreVars, viewVars, chain, home>>

\* Lines 265-267: the status request or res.json() rejects; the catch block
\* logs and returns
DashPollRejected(j) ==
    /\ j \in 1..Len(dash.polls)
    /\ dash.polls[j].pc \in {"fetch", "json"}
    /\ dash' = [dash EXCEPT !.polls[j] = [pc |-> "stopped", body |-> <<>>,
                                          last |-> "failed"]]
    /\ UNCHANGED <<pipeVars, scoreVars, viewVars, chain, home>>

\* Line 262: the 2000 ms timer fires and checkStatus sends its request
DashTimer(j) ==
    /\ j \in 1..Len(dash.polls)
    /\ dash.polls[j].pc = "timer"
    /\ dash' = [dash EXCEPT !.polls[j].pc = "fetch"]
    /\ UNCHANGED <<pipeVars, scoreVars, viewVars, chain, home>>

\* Line 250: the text fetchData hands to setError. The source puts
\* python api_server.py between two backquotes; a string of this language
\* cannot hold that character, and an apostrophe stands for each
CannotConnect ==
    "Cannot connect to API server. Make sure 'python api_server.py' is running on your PC."

\* Lines 270-274: the mount effect or a tick of the 5000 ms interval calls
\* fetchData
DashInterval ==
    /\ dash.fetches < MaxFetches
    /\ dash' = [dash EXCEPT !.fetches = @ + 1]
    /\ UNCHANGED <<pipeVars, scoreVars, viewVars, chain, home>>

\* Lines 236-248: both requests of a fetchData call are answered, the leads
\* one with res.ok; setError(null)
DashFetched ==
    /\ dash.fetches > 0
    /\ dash' = [dash EXCEPT !.fetches = @ - 1, !.error = ""]
    /\ UNCHANGED <<pipeVars, scoreVars, viewVars, chain, home>>

\* Lines 241, 249-251: a request of a fetchData call rejects, or the leads
\* one is answered without res.ok
DashFetchFailed ==
    /\ dash.fetches > 0
    /\ dash' = [dash EXCEPT
                   !.fetches = @ - 1,
                   !.error = CannotConnect]
    /\ UNCHANGED <<pipeVars, scoreVars, viewVars, chain, home>>

\* The server's run comes to its end
ServerFinish ==
    /\ dash.server = "running"
    /\ dash' = [dash EXCEPT !.server = "finished"]
    /\ UNCHANGED <<pipeVars, scoreVars, viewVars, chain, home>>

----------------------------------------------------------------------------
\* The state before any request, by what is to be exercised.  "pipeline": an
\* empty store, no handler running.  "scorer": the same, with the scorer
\* harness holding arguments for one call.  "views": a store the scrape and
\* DELETE handlers can leave behind, for the read routes.  "chain": the
\* enrichment chain about to run over a list of providers.
InitFor(mode) ==
    /\ store \in IF mode = "views" THEN ViewStores
                 ELSE {[p \in PlaceIds |-> NoLead]}
    /\ ids \in IF mode = "views" THEN SUBSET ViewIds ELSE {{}}
    /\ today = 1
    /\ pc = [r \in Runs |-> "idle"]
    /\ rq = [r \in Runs |-> NoReq]
    /\ leads = [r \in Runs |-> <<>>]
    /\ tok = [r \in Runs |-> FALSE]
    /\ attempts = [r \in Runs |-> 0]
    /\ nres = [r \in Runs |-> 0]
    /\ cand = [r \in Runs |-> NoCand]
    /\ cur = [r \in Runs |-> NoLead]
    /\ existing = [r \in Runs |-> FALSE]
    /\ scored = [r \in Runs |-> FALSE]
    /\ resp = [r \in Runs |-> "none"]
    /\ found = [p \in PlaceIds |-> 0]
    /\ cpc = "idle"
    /\ cleft = {}
    /\ cquiet = FALSE
    /\ broke = [r \in Runs |-> FALSE]
    /\ key = [r \in Runs |-> "unread"]
    /\ added = [r \in Runs |-> 0]
    /\ queries = [r \in Runs |-> 0]
    /\ spc = IF mode = "scorer" THEN "in" ELSE "idle"
    /\ sin \in IF mode = "scorer" THEN ScoreInputs ELSE {NoScoreInput}
    /\ sout = NoScore
    /\ vlast = NoView
    /\ vleads = <<>>
    /\ xprev = NoBody
    /\ vreq = NoRead
    /\ chain \in IF mode = "chain"
                 THEN {[NoChain EXCEPT !.pc = "run", !.answers = a] :
                         a \in ProviderLists}
                 ELSE {NoChain}
    /\ home = NoHome
    /\ dash = NoDash

Init == InitFor("pipeline")

ScoreInit == InitFor("scorer")

ViewInit == InitFor("views")

ChainInit == InitFor("chain")

storeVars == <<store, ids, found>>
clearVars == <<cpc, cleft, cquiet>>

\* The test of the key left out
KeyMissingNever(apiKey) == FALSE

\* Line 78: if (!apiKey), apiKey being whether the environment has the key
KeyMissing(apiKey) == ~apiKey

\* Lines 69-87: the request is read and validated, the locals are set up
Start(r, niche, city, state, limit, apiKey) ==
    /\ pc[r] = "idle"
    /\ cand' = [cand EXCEPT ![r] = NoCand]
    /\ cur' = [cur EXCEPT ![r] = NoLead]
    /\ existing' = [existing EXCEPT ![r] = FALSE]
    /\ scored' = [scored EXCEPT ![r] = FALSE]
    /\ leads' = [leads EXCEPT ![r] = <<>>]
    /\ tok' = [tok EXCEPT ![r] = FALSE]
    /\ attempts' = [attempts EXCEPT ![r] = 0]
    /\ nres' = [nres EXCEPT ![r] = 0]
    /\ IF niche = "" \/ city = "" \/ state = ""
       THEN /\ pc' = [pc EXCEPT ![r] = "done"]
            /\ resp' = [resp EXCEPT ![r] = "error400"]
            /\ rq' = [rq EXCEPT ![r] = NoReq]
            /\ key' = [key EXCEPT ![r] = "unread"]
       ELSE IF KeyMissing(apiKey)
       THEN /\ pc' = [pc EXCEPT ![r] = "done"]
            /\ resp' = [resp EXCEPT ![r] = "error500key"]
            /\ rq' = [rq EXCEPT ![r] = NoReq]
            /\ key' = [key EXCEPT ![r] = "missing"]
       ELSE /\ pc' = [pc EXCEPT ![r] = "page"]
            /\ resp' = [resp EXCEPT ![r] = "none"]
            /\ key' = [key EXCEPT ![r] = IF apiKey THEN "set" ELSE "missing"]
            /\ rq' = [rq EXCEPT ![r] =
                        [niche |-> niche, city |-> city, state |-> state,
                         limit |-> IF limit = NoNum THEN 100 ELSE limit]]
    /\ broke' = [broke EXCEPT ![r] = FALSE]
    /\ added' = [added EXCEPT ![r] = 0]
    /\ queries' = [queries EXCEPT ![r] = 0]
    /\ cquiet' = FALSE
    /\ UNCHANGED <<storeVars, today, cpc, cleft, scoreVars, viewVars, chain, uiVars>>

\* Line 71 throwing (request.json() rejects on a body that is not JSON, or
\* the destructuring throws on the body null): the catch of lines 172-175,
\* before any local is set up
StartThrows(r) ==
    /\ pc[r] = "idle"
    /\ pc' = [pc EXCEPT ![r] = "done"]
    /\ resp' = [resp EXCEPT ![r] = "error500"]
    /\ cquiet' = FALSE
    /\ UNCHANGED <<storeVars, today, cpc, cleft, rq, key, queries, added, leads,
                   tok, attempts, nres, cand, cur, existing, scored, broke,
                   scoreVars, viewVars, chain, uiVars>>

\* The loop test without the cap on the pages
LoopAgainNoCap(t, len, limit, att) == t /\ len < limit

\* The loop test with the page count compared one too high
LoopAgainOffByOne(t, len, limit, att) ==
    t /\ len < limit /\ att + 1 < maxAttempts(limit)

\* Line 164: while (nextPageToken && leads.length < limit &&
\* attempts < maxAttempts)
LoopAgain(t, len, limit, att) ==
    t /\ len < limit /\ att < maxAttempts(limit)

\* The wait left out
NeedsCooldownNever(t, len, limit) == FALSE

\* Line 160: if (nextPageToken && leads.length < limit), the condition of
\* the 2 s wait
NeedsCooldown(t, len, limit) == t /\ len < limit

\* Lines 156-164 once the for loop is left: the token is kept, attempts is
\* counted, and the handler waits, fetches again or returns
PageEnd(r, len) ==
    /\ attempts' = [attempts EXCEPT ![r] = @ + 1]
    /\ nres' = [nres EXCEPT ![r] = 0]
    /\ IF NeedsCooldown(tok'[r], len, rq[r].limit)
       THEN /\ pc' = [pc EXCEPT ![r] = "cooldown"]
            /\ resp' = resp
       ELSE IF LoopAgain(tok'[r], len, rq[r].limit, attempts'[r])
       THEN /\ pc' = [pc EXCEPT ![r] = "page"]
            /\ resp' = resp
       ELSE /\ pc' = [pc EXCEPT ![r] = "done"]
            /\ resp' = [resp EXCEPT ![r] = "ok"]

\* The limit test letting one lead too many through
LimitReachedLate(len, limit) == len > limit

\* Line 107: if (leads.length >= limit) break
LimitReached(len, limit) == len >= limit

\* Lines 106-107: the next place of the page, unless the limit is reached
NextPlace(r, n, len) ==
    IF n > 0 /\ ~LimitReached(len, rq[r].limit)
    THEN /\ pc' = [pc EXCEPT ![r] = "details"]
         /\ nres' = [nres EXCEPT ![r] = n]
         /\ UNCHANGED <<attempts, resp>>
    ELSE PageEnd(r, len)

\* Lines 89-106: one text search request and its response
FetchPage(r, status, n, next) ==
    /\ pc[r] = "page"
    /\ queries' = [queries EXCEPT ![r] = @ + 1]
    /\ IF status # "OK" /\ status # "ZERO_RESULTS"
       THEN /\ pc' = [pc EXCEPT ![r] = "done"]
            /\ resp' = [resp EXCEPT ![r] = "ok"]
            /\ broke' = [broke EXCEPT ![r] = TRUE]
            /\ UNCHANGED <<tok, attempts, nres>>
       ELSE /\ tok' = [tok EXCEPT ![r] = next]
            /\ broke' = broke
            /\ NextPlace(r, n, Len(leads[r]))
    /\ UNCHANGED <<storeVars, today, rq, key, added, leads, cand, cur, existing, scored,
                   clearVars, scoreVars, viewVars, chain, uiVars>>

\* Lines 97-98 or 115-116 throwing (the fetch rejects, or the body is not
\* JSON): the catch of lines 172-175
FetchThrows(r) ==
    /\ pc[r] \in {"page", "details"}
    /\ queries' = [queries EXCEPT ![r] = IF pc[r] = "page" THEN @ + 1 ELSE @]
    /\ pc' = [pc EXCEPT ![r] = "done"]
    /\ resp' = [resp EXCEPT ![r] = "error500"]
    /\ UNCHANGED <<storeVars, today, rq, key, added, leads, tok, attempts, nres, cand, cur,
                   existing, scored, clearVars, broke, scoreVars, viewVars, chain, uiVars>>

\* Line 142, 146 or 147 throwing (the kv call rejects): the catch of lines
\* 172-175
KvThrows(r) ==
    /\ pc[r] \in {"get", "set", "sadd"}
    /\ pc' = [pc EXCEPT ![r] = "done"]
    /\ resp' = [resp EXCEPT ![r] = "error500"]
    /\ UNCHANGED <<storeVars, today, rq, key, queries, added, leads, tok, attempts, nres,
                   cand, cur, existing, scored, clearVars, broke, scoreVars,
                   viewVars, chain, uiVars>>

\* Lines 110-139: the details request for the next place of the page, the
\* filter, and the lead built and scored
Details(r, place, status, details) ==
    /\ pc[r] = "details"
    /\ cand' = [cand EXCEPT ![r] =
                  [place_id |-> place.place_id, status |-> status,
                   phone |-> details.formatted_phone_number,
                   website |-> details.website]]
    /\ scored' = [scored EXCEPT ![r] = ReachesScoring(status, details)]
    /\ existing' = [existing EXCEPT ![r] = FALSE]
    /\ IF status = "OK" /\ Qualifies(details)
       THEN /\ cur' = [cur EXCEPT ![r] = BuildLead(place, details, rq[r], today)]
            /\ pc' = [pc EXCEPT ![r] = "get"]
       ELSE /\ cur' = [cur EXCEPT ![r] = NoLead]
            /\ pc' = [pc EXCEPT ![r] = "delay"]
    /\ UNCHANGED <<storeVars, today, rq, key, queries, added, leads, tok, attempts, nres, resp,
                   clearVars, broke, scoreVars, viewVars, chain, uiVars>>

\* Lines 142-144: kv.get answers, and a lead not found is pushed
KvGet(r) ==
    /\ pc[r] = "get"
    /\ existing' = [existing EXCEPT ![r] = Existing(cur[r].id)]
    /\ IF existing'[r]
       THEN /\ pc' = [pc EXCEPT ![r] = "delay"]
            /\ UNCHANGED <<leads, found>>
       ELSE /\ pc' = [pc EXCEPT ![r] = "set"]
            /\ leads' = [leads EXCEPT ![r] = Append(@, cur[r])]
            /\ found' = [found EXCEPT ![cur[r].id] = @ + 1]
    /\ UNCHANGED <<store, ids, today, rq, key, queries, added, tok, attempts, nres, cand, cur, scored,
                   resp, clearVars, broke, scoreVars, viewVars, chain, uiVars>>

\* Line 146: kv.set(`lead:${lead.id}`, JSON.stringify(lead))
KvSet(r) ==
    /\ pc[r] = "set"
    /\ store' = [store EXCEPT ![cur[r].id] = cur[r]]
    /\ pc' = [pc EXCEPT ![r] = "sadd"]
    /\ UNCHANGED <<ids, found, today, rq, key, queries, added, leads, tok, attempts, nres, cand, cur,
                   existing, scored, resp, clearVars, broke, scoreVars, viewVars, chain, uiVars>>

\* Line 147: kv.sadd('leads:ids', lead.id)
KvSadd(r) ==
    /\ pc[r] = "sadd"
    /\ ids' = ids \cup {cur[r].id}
    /\ added' = [added EXCEPT ![r] = @ + 1]
    /\ pc' = [pc EXCEPT ![r] = "delay"]
    /\ UNCHANGED <<store, found, today, rq, key, queries, leads, tok, attempts, nres, cand, cur,
                   existing, scored, resp, clearVars, broke, scoreVars, viewVars, chain, uiVars>>

\* Lines 152-164: the 100 ms delay that ends a place, then the next place or
\* the end of the page
Delay(r) ==
    /\ pc[r] = "delay"
    /\ tok' = tok
    /\ NextPlace(r, nres[r] - 1, Len(leads[r]))
    /\ UNCHANGED <<storeVars, today, rq, key, queries, added, leads, cand, cur, existing, scored,
                   clearVars, broke, scoreVars, viewVars, chain, uiVars>>

\* Lines 160-164: the 2 s wait before the token is used, then the loop test
Cooldown(r) ==
    /\ pc[r] = "cooldown"
    /\ IF LoopAgain(tok[r], Len(leads[r]), rq[r].limit, attempts[r])
       THEN /\ pc' = [pc EXCEPT ![r] = "page"]
            /\ resp' = resp
       ELSE /\ pc' = [pc EXCEPT ![r] = "done"]
            /\ resp' = [resp EXCEPT ![r] = "ok"]
    /\ UNCHANGED <<storeVars, today, rq, key, queries, added, leads, tok, attempts, nres, cand, cur,
                   existing, scored, clearVars, broke, scoreVars, viewVars, chain, uiVars>>

\* The response is delivered and the invocation ends, its locals with it
Respond(r) ==
    /\ pc[r] = "done"
    /\ pc' = [pc EXCEPT ![r] = "idle"]
    /\ rq' = [rq EXCEPT ![r] = NoReq]
    /\ leads' = [leads EXCEPT ![r] = <<>>]
    /\ tok' = [tok EXCEPT ![r] = FALSE]
    /\ attempts' = [attempts EXCEPT ![r] = 0]
    /\ nres' = [nres EXCEPT ![r] = 0]
    /\ cand' = [cand EXCEPT ![r] = NoCand]
    /\ cur' = [cur EXCEPT ![r] = NoLead]
    /\ existing' = [existing EXCEPT ![r] = FALSE]
    /\ scored' = [scored EXCEPT ![r] = FALSE]
    /\ resp' = [resp EXCEPT ![r] = "none"]
    /\ broke' = [broke EXCEPT ![r] = FALSE]
    /\ key' = [key EXCEPT ![r] = "unread"]
    /\ added' = [added EXCEPT ![r] = 0]
    /\ queries' = [queries EXCEPT ![r] = 0]
    /\ UNCHANGED <<storeVars, today, clearVars, scoreVars, viewVars, chain, uiVars>>

----------------------------------------------------------------------------
(* The leads route: DELETE /api/leads *)

\* Line 46: kv.smembers('leads:ids')
ClearStart ==
    /\ cpc = "idle"
    /\ cleft' = ids
    /\ cpc' = IF ids = {} THEN "delids" ELSE "del"
    /\ cquiet' = \A r \in Runs : pc[r] = "idle"
    /\ UNCHANGED <<storeVars, today, pc, rq, key, queries, added, leads, tok, attempts, nres, cand,
                   cur, existing, scored, resp, broke, scoreVars, viewVars, chain, uiVars>>

\* Lines 47-49: kv.del(`lead:${id}`) for one id of the snapshot
ClearDel(id) ==
    /\ cpc = "del"
    /\ id \in cleft
    /\ store' = [store EXCEPT ![id] = NoLead]
    /\ found' = [found EXCEPT ![id] = 0]
    /\ cleft' = cleft \ {id}
    /\ cpc' = IF cleft' = {} THEN "delids" ELSE "del"
    /\ UNCHANGED <<ids, cquiet, today, pc, rq, key, queries, added, leads, tok, attempts, nres, cand, cur,
                   existing, scored, resp, broke, scoreVars, viewVars, chain, uiVars>>

\* Lines 50-51: kv.del('leads:ids'), and the success response
ClearDelIds ==
    /\ cpc = "delids"
    /\ ids' = {}
    /\ cpc' = "idle"
    /\ cquiet' = FALSE
    /\ UNCHANGED <<store, found, cleft, today, pc, rq, key, queries, added, leads, tok, attempts,
                   nres, cand, cur, existing, scored, resp, broke, scoreVars, viewVars, chain, uiVars>>

\* Line 48 or 50 throwing (a kv.del rejects): the catch of lines 52-54
\* answers 500 and the request ends with what it has deleted so far
ClearThrows ==
    /\ cpc \in {"del", "delids"}
    /\ cpc' = "idle"
    /\ cleft' = {}
    /\ cquiet' = FALSE
    /\ UNCHANGED <<storeVars, today, pc, rq, key, queries, added, leads, tok,
                   attempts, nres, cand, cur, existing, scored, resp, broke,
                   scoreVars, viewVars, chain, uiVars>>

----------------------------------------------------------------------------
(* The read routes as requests.  A handler awaits kv.smembers and then one
   kv.get per id of the answer, so the requests of other handlers can run
   between any two of its calls. *)

runVars == <<pc, rq, leads, tok, attempts, nres, cand, cur, existing, scored,
             resp, broke, key, added, queries>>

\* The filter of the request: the list route's parameter, none elsewhere
ReadFilter(kind, param) == IF kind = "list" THEN FilterOf(param) ELSE "all"

\* The response of a handler whose loop has ended with `loaded` in hand
ReadResponse(kind, param, loaded) ==
    [kind |-> kind, param |-> param, status |-> 200, threw |-> FALSE,
     body |-> IF kind = "list" THEN SortLeads(loaded)
              ELSE IF kind = "stats" THEN StatsOf(loaded)
              ELSE CsvRows(SortLeads(loaded))]

\* kv.smembers('leads:ids') answers in some order: the handler answers at
\* once on an empty index and else enters its loop; the body of a
\* successful export right before an export is kept for comparison
ReadStart(kind, param, order) ==
    /\ vreq.pc = "idle"
    /\ xprev' = IF kind = "export" /\ vlast.kind = "export" /\ vlast.status = 200
                THEN vlast.body ELSE NoBody
    /\ vleads' = <<>>
    /\ IF order = <<>>
       THEN /\ vlast' = ReadResponse(kind, param, <<>>)
            /\ vreq' = NoRead
       ELSE /\ vlast' = NoView
            /\ vreq' = [pc |-> "load", kind |-> kind, param |-> param,
                        left |-> order, loaded |-> <<>>]
    /\ ids' = IndexAfterRead(ids)
    /\ UNCHANGED <<store, found, today, runVars, clearVars, scoreVars, chain, uiVars>>

\* route.ts lines 4-13: GET /api/leads?filter=param up to its loop
ListCall(param, order) == ReadStart("list", param, order)

\* part_000 lines 4-16: GET /api/stats up to its loop
StatsCall(order) == ReadStart("stats", "", order)

\* part_001 lines 4-7: GET /api/export up to its loop
ExportCall(order) == ReadStart("export", "", order)

\* One turn of the loop: kv.get for the next id, the record kept when there
\* is one and the filter lets it through; after the last id the handler
\* sorts or counts and answers
ReadGet ==
    /\ vreq.pc = "load"
    /\ LET data == store[Head(vreq.left)]
           loaded ==
               IF /\ data # NoLead
                  /\ FilterKeeps(ReadFilter(vreq.kind, vreq.param),
                                 OrZero(data.lead_score))
               THEN Append(vreq.loaded, data) ELSE vreq.loaded
       IN IF Tail(vreq.left) = <<>>
          THEN /\ vlast' = ReadResponse(vreq.kind, vreq.param, loaded)
               /\ vleads' = IF vreq.kind = "stats" THEN <<>>
                            ELSE IdsOf(SortLeads(loaded))
               /\ vreq' = NoRead
          ELSE /\ vreq' = [vreq EXCEPT !.left = Tail(@), !.loaded = loaded]
               /\ UNCHANGED <<vlast, vleads>>
    /\ xprev' = xprev
    /\ ids' = IndexAfterRead(ids)
    /\ UNCHANGED <<store, found, today, runVars, clearVars, scoreVars, chain, uiVars>>

\* A kv call of the handler rejects, kv.smembers or a kv.get of the loop:
\* the catch block answers
ViewFails(kind) ==
    /\ vreq.pc = "idle" \/ vreq.kind = kind
    /\ vlast' =
         CASE kind = "list" ->
                [kind |-> kind, param |-> "", status |-> 500, threw |-> TRUE,
                 body |-> [error |-> "Failed to fetch leads"]]
           [] kind = "export" ->
                [kind |-> kind, param |-> "", status |-> 500, threw |-> TRUE,
                 body |-> [error |-> "Export failed"]]
           [] kind = "stats" ->
                [kind |-> kind, param |-> "", status |-> 200, threw |-> TRUE,
                 body |-> [total |-> 0, hot |-> 0, warm |-> 0,
                           new_this_session |-> 0]]
    /\ vleads' = <<>>
    /\ xprev' = NoBody
    /\ vreq' = NoRead
    /\ ids' = IndexAfterRead(ids)
    /\ UNCHANGED <<store, found, today, runVars, clearVars, scoreVars, chain, uiVars>>

----------------------------------------------------------------------------
(* Inputs *)

\* Request bodies
Niches == {"plumbers", "bakery"}
Cities == {"Houston"}
States == {"TX"}
SeqLimits == {NoNum, 0, 1, 21}
ConcLimits == {2}

\* Places of a text search page
Places ==
    [place_id : PlaceIds, name : {"Acme Plumbing"}, rating : {45},
     user_ratings_total : {NoNum}, formatted_address : {"1 Main St, Houston"},
     url : {""}, website : {NoStr}]

\* The same, and results that carry a website key
SitePlaces ==
    [place_id : PlaceIds, name : {"Acme Plumbing"}, rating : {45},
     user_ratings_total : {NoNum}, formatted_address : {"1 Main St, Houston"},
     url : {""}, website : {NoStr, "http://x.com"}]

\* Bodies of a details response
DetailStatuses == {"OK", "NOT_FOUND"}
SeqDetails ==
    [name : {"", "Bolt Electric"},
     formatted_phone_number : {"", "555-1234"},
     website : {NoStr, "http://x.com"},
     formatted_address : {""}, vicinity : {"Main St"},
     rating : {32}, user_ratings_total : {5},
     url : {""}]
ConcDetails ==
    [name : {"Acme Plumbing"},
     formatted_phone_number : {"", "555-1234"},
     website : {NoStr, "http://x.com"},
     formatted_address : {""}, vicinity : {"Main St"},
     rating : {32}, user_ratings_total : {5},
     url : {""}]

\* Details of a business with many or few reviews, with or without its own
\* rating and website keys
SiteDetails ==
    [name : {"Bolt Electric"},
     formatted_phone_number : {"555-1234"},
     website : {NoStr, "http://x.com"},
     formatted_address : {""}, vicinity : {"Main St"},
     rating : {NoNum, 32}, user_ratings_total : {5, 60},
     url : {""}]

PageStatuses == {"OK", "ZERO_RESULTS", "OVER_QUERY_LIMIT"}

----------------------------------------------------------------------------
(* Specifications *)

\* Some request is being handled
InFlight == cpc # "idle" \/ \E r \in Runs : pc[r] # "idle"

\* Requests handled one after another
SeqStart ==
    /\ ~InFlight
    /\ \E niche \in Niches \cup {""}, city \in Cities, state \in States,
          limit \in SeqLimits, apiKey \in BOOLEAN :
          Start(1, niche, city, state, limit, apiKey)

SeqClear == ~InFlight /\ ClearStart

SeqNext ==
    \/ SeqStart
    \/ ~InFlight /\ StartThrows(1)
    \/ \E status \in PageStatuses, n \in 0..MaxResults, next \in BOOLEAN :
          FetchPage(1, status, n, next)
    \/ FetchThrows(1)
    \/ \E place \in Places, status \in DetailStatuses, details \in SeqDetails :
          Details(1, place, status, details)
    \/ KvGet(1)
    \/ KvSet(1)
    \/ KvSadd(1)
    \/ Delay(1)
    \/ Cooldown(1)
    \/ Respond(1)
    \/ SeqClear
    \/ \E id \in PlaceIds : ClearDel(id)
    \/ ClearDelIds
    \/ ClearThrows

SpecSeq == Init /\ [][SeqNext]_vars

\* Requests handled one after another, with kv calls that may reject; a
\* place is taken as new MaxFound times at most before requests stop coming
FaultStart ==
    /\ ~InFlight
    /\ \A p \in PlaceIds : found[p] < MaxFound
    /\ \E city \in Cities, state \in States, limit \in ConcLimits :
          Start(1, "plumbers", city, state, limit, TRUE)

FaultNext ==
    \/ FaultStart
    \/ \E n \in 0..MaxResults : FetchPage(1, "OK", n, FALSE)
    \/ \E place \in Places, details \in ConcDetails :
          Details(1, place, "OK", details)
    \/ KvGet(1)
    \/ KvSet(1)
    \/ KvSadd(1)
    \/ KvThrows(1)
    \/ Delay(1)
    \/ Respond(1)
    \/ SeqClear
    \/ \E id \in PlaceIds : ClearDel(id)
    \/ ClearDelIds
    \/ ClearThrows

SpecFault == Init /\ [][FaultNext]_vars

\* One request at a time on an API that answers every page with or without
\* a token; a request that has started keeps being scheduled: its awaited
\* fetch and kv promises settle and its timers fire
LiveLimits == {0, 1, 21}

LiveStart ==
    /\ ~InFlight
    /\ \E city \in Cities, state \in States, limit \in LiveLimits :
          Start(1, "plumbers", city, state, limit, TRUE)

LiveStep ==
    \/ \E status \in PageStatuses, n \in 0..MaxResults, next \in BOOLEAN :
          FetchPage(1, status, n, next)
    \/ FetchThrows(1)
    \/ \E place \in Places, status \in DetailStatuses, details \in ConcDetails :
          Details(1, place, status, details)
    \/ KvGet(1)
    \/ KvSet(1)
    \/ KvSadd(1)
    \/ Delay(1)
    \/ Cooldown(1)
    \/ Respond(1)

LiveNext ==
    \/ LiveStart
    \/ LiveStep

SpecLive == Init /\ [][LiveNext]_vars /\ WF_vars(LiveStep)

\* Requests handled concurrently: any interleaving of their steps
\* (one niche per request slot: the two requests scrape two niches)
ConcNiche(r) == IF r = 1 THEN "plumbers" ELSE "bakery"

ConcStart(r) ==
    \E city \in Cities, state \in States, limit \in ConcLimits :
       Start(r, ConcNiche(r), city, state, limit, TRUE)

Next ==
    \/ \E r \in Runs : ConcStart(r)
    \/ \E r \in Runs : StartThrows(r)
    \/ \E r \in Runs, status \in PageStatuses, n \in 0..ConcMaxResults :
          FetchPage(r, status, n, FALSE)
    \/ \E r \in Runs : FetchThrows(r)
    \/ \E r \in Runs, place \in Places, details \in ConcDetails :
          Details(r, place, "OK", details)
    \/ \E r \in Runs : KvGet(r)
    \/ \E r \in Runs : KvSet(r)
    \/ \E r \in Runs : KvSadd(r)
    \/ \E r \in Runs : Delay(r)
    \/ \E r \in Runs : Respond(r)
    \/ ClearStart
    \/ \E id \in PlaceIds : ClearDel(id)
    \/ ClearDelIds
    \/ ClearThrows

Spec == Init /\ [][Next]_vars

\* Requests handled one after another on an API whose text search results
\* may carry a website key of their own
SiteStart ==
    /\ ~InFlight
    /\ \E city \in Cities, state \in States, limit \in ConcLimits :
          Start(1, "bakery", city, state, limit, TRUE)

SiteNext ==
    \/ SiteStart
    \/ \E n \in 0..MaxResults : FetchPage(1, "OK", n, FALSE)
    \/ \E place \in SitePlaces, details \in SiteDetails :
          Details(1, place, "OK", details)
    \/ KvGet(1)
    \/ KvSet(1)
    \/ KvSadd(1)
    \/ Delay(1)
    \/ Respond(1)

SpecSite == Init /\ [][SiteNext]_vars

\* One scrape request at a time beside DELETE requests, their steps
\* interleaved, on an API and a store that never fail: every request ends
\* with a response of success
RaceStart == pc[1] = "idle" /\ ConcStart(1)

RaceNext ==
    \/ RaceStart
    \/ \E n \in 0..ConcMaxResults : FetchPage(1, "OK", n, FALSE)
    \/ \E place \in Places, details \in ConcDetails :
          Details(1, place, "OK", details)
    \/ KvGet(1)
    \/ KvSet(1)
    \/ KvSadd(1)
    \/ Delay(1)
    \/ Respond(1)
    \/ ClearStart
    \/ \E id \in PlaceIds : ClearDel(id)
    \/ ClearDelIds

SpecRace == Init /\ [][RaceNext]_vars

\* The scorer alone, on every argument of ScoreInputs
ScoreNext == ScoreCall

SpecScore == ScoreInit /\ [][ScoreNext]_vars

\* The read routes on every store, each call with an order kv.smembers may
\* answer in
ViewNext ==
    \/ \E order \in Orders(ids) :
          \/ \E param \in Filters : ListCall(param, order)
          \/ StatsCall(order)
          \/ ExportCall(order)
    \/ ReadGet
    \/ \E kind \in {"list", "stats", "export"} : ViewFails(kind)

SpecView == ViewInit /\ [][ViewNext]_vars

\* The read routes beside one scrape request at a time and DELETE requests,
\* the awaited calls of all of them interleaved
MixedNext ==
    \/ RaceNext
    \/ \E order \in Orders(ids) :
          \/ \E param \in {"", "hot"} : ListCall(param, order)
          \/ StatsCall(order)
          \/ ExportCall(order)
    \/ ReadGet
    \/ \E kind \in {"list", "stats", "export"} : ViewFails(kind)
    \/ ClearThrows

SpecMixed == Init /\ [][MixedNext]_vars

\* The enrichment chain alone, on every provider list of ProviderLists
ChainNext ==
    \/ ChainLookup
    \/ ChainExhausted

SpecChain == ChainInit /\ [][ChainNext]_vars

\* The single-app page alone: clicks on Start with every form content, and
\* every way the scrape request can settle.  Every request settles.
HomeSettles ==
    \E i \in 1..MaxClicks :
        \/ HomeFetched(i)
        \/ \E data \in ScrapePayloads : HomeSettled(i, data)
        \/ HomeRejected(i)

HomeNext ==
    \/ \E niche \in FormNiches, city \in FormCities, state \in FormStates,
          limit \in FormLimits : HomeStart(niche, city, state, limit)
    \/ HomeSettles

SpecHome == Init /\ [][HomeNext]_vars /\ WF_vars(HomeSettles)

\* The polling dashboard alone.  Every request settles, every timer fires
\* and the server's run ends.
DashPostSettles ==
    \E i \in 1..MaxClicks :
        DashServed(i) \/ DashPosted(i) \/ DashPostFailed(i)

DashPollSettles ==
    \E j \in 1..MaxClicks :
        DashPollFetched(j) \/ DashPollAnswered(j) \/ DashPollRejected(j)

DashTimers == \E j \in 1..MaxClicks : DashTimer(j)

DashFetchSettles == DashFetched \/ DashFetchFailed

DashNext ==
    \/ DashStart
    \/ DashPostSettles
    \/ DashPollSettles
    \/ DashTimers
    \/ DashInterval
    \/ DashFetchSettles
    \/ ServerFinish

SpecDash ==
    /\ Init /\ [][DashNext]_vars
    /\ WF_vars(DashPostSettles) /\ WF_vars(DashPollSettles)
    /\ WF_vars(DashTimers) /\ WF_vars(DashFetchSettles)
    /\ WF_vars(ServerFinish)

----------------------------------------------------------------------------
(* Properties *)

\* The place ids of a request's local array `leads`
LeadIds(r) == {leads[r][i].id : i \in 1..Len(leads[r])}

\* The current place passed the filter: details OK, no website, a phone
CandQualifies(r) ==
    /\ cand[r] # NoCand
    /\ cand[r].status = "OK"
    /\ Falsy(cand[r].website)
    /\ ~Falsy(cand[r].phone)

\* C1: with requests handled one after another, a place id is taken as new
\* at most once between two clears: it is never pushed twice (neither in one
\* request's leads nor across requests), a write is only ever started for an
\* id with no stored record, and a place found stored is left out of leads
\* unless this same request had inserted it.
C1_SequentialDedup ==
    /\ \A p \in PlaceIds : found[p] <= 1
    /\ \A r \in Runs :
          /\ Cardinality(LeadIds(r)) = Len(leads[r])
          /\ pc[r] = "set" => store[cur[r].id] = NoLead
          /\ pc[r] = "delay" /\ existing[r] =>
                /\ store[cur[r].id] # NoLead
                /\ found[cur[r].id] = 1

\* C1 witness: a second discovery of a stored id has just been rejected
C1_Witness ==
    \E r \in Runs :
        /\ pc[r] = "delay"
        /\ existing[r]
        /\ store[cur[r].id] # NoLead
        /\ cur[r].id \in ids
        /\ found[cur[r].id] = 1

\* C2: of two concurrent requests that discover the same place, at most one
\* takes it as new: both hold it in their leads only if its record was
\* deleted in between.
C2_AtMostOneInserts ==
    \A p \in PlaceIds :
        (\A r \in Runs : p \in LeadIds(r)) => found[p] <= 1

\* C3: a stored lead record is never replaced by a different one; it changes
\* only by being deleted.
C3_FirstWriteWins ==
    [][\A p \in PlaceIds :
          store[p] # NoLead /\ store'[p] # NoLead => store'[p] = store[p]]_vars

\* C4: no two stored leads share name and city, whatever their place ids.
C4_OneLeadPerNameAndCity ==
    \A p, q \in PlaceIds :
        p # q /\ store[p] # NoLead /\ store[q] # NoLead =>
            ~(store[p].name = store[q].name /\ store[p].city = store[q].city)

\* C5: every stored lead has a non-empty phone and an empty website.
C5_StoredLeadsQualify ==
    \A p \in PlaceIds :
        store[p] # NoLead => ~Falsy(store[p].phone) /\ store[p].website = ""

\* C5 witness: a lead is stored and indexed
C5_Witness == \E p \in PlaceIds : store[p] # NoLead /\ p \in ids

\* C6: a place with a phone and no website is in the store once its
\* iteration ends, with this request's lead when it was not stored before;
\* the handler reaches the store for no other place, and every record
\* written is the lead of a place with a phone and no website.
C6_FilterBothWays ==
    /\ [](\A r \in Runs :
            /\ pc[r] \in {"get", "set", "sadd"} =>
                  CandQualifies(r) /\ cur[r].id = cand[r].place_id
            /\ cand[r] # NoCand /\ ~Falsy(cand[r].website) => cur[r] = NoLead
            /\ pc[r] = "delay" /\ CandQualifies(r) =>
                  /\ store[cand[r].place_id] # NoLead
                  /\ cand[r].place_id \in ids
                  /\ ~existing[r] =>
                        /\ store[cand[r].place_id] = cur[r]
                        /\ cand[r].place_id \in LeadIds(r))
    /\ [][\A p \in PlaceIds :
            store'[p] # store[p] /\ store'[p] # NoLead =>
                \E r \in Runs :
                    /\ pc[r] = "set"
                    /\ CandQualifies(r)
                    /\ cand[r].place_id = p
                    /\ store'[p] = cur[r]]_vars

\* C6 witness: a place with a phone and no website, not stored before, has
\* been persisted
C6_Witness ==
    \E r \in Runs :
        /\ pc[r] = "delay"
        /\ CandQualifies(r)
        /\ ~existing[r]
        /\ store[cand[r].place_id] = cur[r]

\* C7: calculateLeadScore is not called for a place that fails the filter
\* (a website, or no phone).
C7_DroppedNeverScored ==
    \A r \in Runs :
        cand[r] # NoCand /\ (~Falsy(cand[r].website) \/ Falsy(cand[r].phone)) =>
            ~scored[r]

\* C7 witness: a place with a website was dropped, unscored
C7_Witness ==
    \E r \in Runs :
        /\ pc[r] = "delay"
        /\ cand[r].status = "OK"
        /\ ~Falsy(cand[r].website)
        /\ ~Falsy(cand[r].phone)
        /\ ~scored[r]
        /\ cur[r] = NoLead

\* C8: the scorer returns an integer from 0 to 30.
C8_ScoreInRange == spc = "out" => sout.score \in 0..30

\* C8 witness: the largest sum, 10 + 9 + 3 + 7
C8_Witness ==
    /\ spc = "out"
    /\ sin.user_ratings_total = 0
    /\ Falsy(sin.website)
    /\ sout.score = 29

\* The review-count bands as published
ReviewBand(n) ==
    IF n = NoNum \/ n = 0 THEN 10
    ELSE IF n \in 1..10 THEN 8
    ELSE IF n \in 11..25 THEN 5
    ELSE IF n \in 26..50 THEN 3
    ELSE 1

\* C9: the score after the review section is the published band of the
\* review count, a missing count taken as 0.
C9_ReviewBands == spc = "out" => sout.steps[1] = ReviewBand(sin.user_ratings_total)

\* C9 witness: 51 reviews earn 1
C9_Witness ==
    spc = "out" /\ sin.user_ratings_total = 51 /\ sout.steps[1] = 1

\* The rating bands as published, in tenths
RatingBand(x) ==
    IF x # NoNum /\ x > 0 /\ x <= 35 THEN 9
    ELSE IF x # NoNum /\ x > 35 /\ x <= 40 THEN 4
    ELSE 0

\* C10: the rating section adds 9 for a rating in (0, 3.5], 4 for one in
\* (3.5, 4.0], and nothing otherwise.
C10_RatingBands ==
    spc = "out" => sout.steps[2] - sout.steps[1] = RatingBand(sin.rating)

\* C10 witness: rating 3.5 earns 9
C10_Witness ==
    spc = "out" /\ sin.rating = 35 /\ sout.steps[2] - sout.steps[1] = 9

\* The niches of ScoreNiches that contain an entry of the high-value list,
\* letter case aside
HighValueExpected ==
    {"plumbers", "Plumbers", "HVAC repair", "hvac plumbers", "Auto Detailing",
     "car detailing shop"}

\* C11: the niche section adds 7 exactly when the niche contains a
\* high-value entry, compared case-insensitively, and adds it once.
C11_NicheTerm ==
    spc = "out" =>
        sout.steps[4] - sout.steps[3] =
            IF sin.niche \in HighValueExpected THEN 7 ELSE 0

\* C11 witness: a niche matching two entries earns 7
C11_Witness ==
    /\ spc = "out"
    /\ sin.niche = "hvac plumbers"
    /\ sout.steps[4] - sout.steps[3] = 7

\* The scenario: plumbers, 5 reviews, rating 3.2, no website
PlumbersScenario ==
    [user_ratings_total |-> 5, rating |-> 32, website |-> "", niche |-> "plumbers"]

\* C12: the scenario scores 8 + 9 + 3 + 7 = 27, and every tier mapping takes
\* the result as HOT.
C12_PlumbersScenario ==
    spc = "out" /\ sin = PlumbersScenario =>
        /\ sout.steps = <<8, 17, 20, 27>>
        /\ sout.score = 27
        /\ FilterKeeps("hot", sout.score)
        /\ ~FilterKeeps("warm", sout.score)
        /\ ~FilterKeeps("medium", sout.score)
        /\ StatsBucket(sout.score) = "hot"
        /\ getTier(sout.score) = "HOT"
        /\ getTierDashboard(sout.score) = "HOT"

\* C12 witness: the scenario has been scored
C12_Witness == spc = "out" /\ sin = PlumbersScenario /\ sout.score = 27

\* The four terms as published, summed
PublishedSum(in) ==
    ReviewBand(in.user_ratings_total) + RatingBand(in.rating)
        + (IF in.website \in {NoStr, ""} THEN 3 ELSE 0)
        + (IF in.niche \in HighValueExpected THEN 7 ELSE 0)

Clamp(x, lo, hi) == IF x < lo THEN lo ELSE IF x > hi THEN hi ELSE x

\* C13: the result is the sum of the four terms clamped to [0, 30], and the
\* sum is never negative.
C13_ClampedSum ==
    spc = "out" =>
        /\ sout.steps[4] = PublishedSum(sin)
        /\ sout.steps[4] >= 0
        /\ sout.score = Clamp(PublishedSum(sin), 0, 30)

\* C13 witness: the smallest sum, 1 + 0 + 0 + 0
C13_Witness ==
    /\ spc = "out"
    /\ sin.user_ratings_total = 51
    /\ sin.website = "http://x.com"
    /\ sout.steps[4] = 1
    /\ sout.score = 1

----------------------------------------------------------------------------
(* The read routes and the DELETE route *)

\* C14: the list response is sorted by lead_score descending, a missing
\* score counting as 0: of two adjacent leads the first scores at least as
\* much as the second, for every store, every filter and every order the
\* index is read in
C14_ListSorted ==
    vlast.kind = "list" /\ vlast.status = 200 =>
        \A i \in 1..(Len(vlast.body) - 1) :
            OrZero(vlast.body[i].lead_score) >=
                OrZero(vlast.body[i + 1].lead_score)

C14_Witness ==
    /\ vlast.kind = "list" /\ vlast.status = 200
    /\ Len(vlast.body) = 3
    /\ vlast.body[1].lead_score > vlast.body[2].lead_score
    /\ vlast.body[2].lead_score > vlast.body[3].lead_score
    /\ vlast.body[1].id = "p3"

\* C15: a DELETE request that ran with no other request in flight, from
\* its first kv call to its last, and reports success (the step is the
\* kv.del of the index going through, not the catch block answering 500)
\* leaves no lead record and no index entry; list then answers the empty
\* sequence for every filter and stats a total of 0
C15_ClearRemovesAll ==
    [][ClearDelIds /\ cquiet
       /\ (\A r \in Runs : pc[r] = "idle") =>
          /\ \A p \in PlaceIds : store'[p] = NoLead
          /\ ids' = {}
          /\ \A order \in Orders(ids') :
                /\ \A param \in Filters :
                      ListBody(order, FilterOf(param)) = <<>>
                /\ StatsBody(order).total = 0]_vars

\* C16: of two successful exports in a row on the same store, the second
\* body equals the first, whatever order kv.smembers answered in each time
C16_ExportIdempotent ==
    vlast.kind = "export" /\ vlast.status = 200 /\ xprev # NoBody =>
        vlast.body = xprev

\* The order of the identity keys
IdRank(id) == CASE id = "p1" -> 1 [] id = "p2" -> 2 [] id = "p3" -> 3

\* C17: the rows of an export are ordered by lead_score descending, and
\* leads of equal score by identity key ascending
C17_ExportTotalOrder ==
    vlast.kind = "export" /\ vlast.status = 200 =>
        \A i, j \in 1..Len(vleads) :
            i < j =>
                LET a == store[vleads[i]]
                    b == store[vleads[j]]
                IN \/ OrZero(a.lead_score) > OrZero(b.lead_score)
                   \/ /\ OrZero(a.lead_score) = OrZero(b.lead_score)
                      /\ IdRank(a.id) < IdRank(b.id)

\* C18: a list, stats or export request, failing or not, leaves every lead
\* record and the index as they were
C18_ReadsArePure ==
    [][vreq' # vreq \/ vlast' # vlast => store' = store /\ ids' = ids]_vars

C18_Witness ==
    /\ vlast.kind = "export" /\ vlast.status = 500
    /\ \E p \in ids : store[p] = NoLead
    /\ \E p \in ids : store[p] # NoLead

\* The field list of the persisted snapshot
SnapshotFields ==
    <<"name", "phone", "niche", "city", "state", "address", "rating",
      "review_count", "lead_score", "gmb_link", "date_added">>

\* C19: the first line of an export is the snapshot field list, in order,
\* and every other line has one column per column of the first
C19_HeaderIsSnapshot ==
    vlast.kind = "export" /\ vlast.status = 200 =>
        /\ vlast.body[1] = SnapshotFields
        /\ \A i \in 2..Len(vlast.body) :
              Len(vlast.body[i]) = Len(vlast.body[1])

----------------------------------------------------------------------------
(* Pagination *)

\* A scrape request answered with success whose page loop was not left by
\* the break on a Places API error status
EndedByLoopTest(r) == pc[r] = "done" /\ resp[r] = "ok" /\ ~broke[r]

\* C20 as stated: the scraper stops fetching pages only when max_results
\* leads are collected or the last page carried no next-page token
C20_StopsOnLimitOrNoToken ==
    \A r \in Runs :
        EndedByLoopTest(r) => Len(leads[r]) >= rq[r].limit \/ ~tok[r]

\* C20, amended: the scraper stops fetching pages only when max_results
\* leads are collected, the last page carried no next-page token, or it has
\* fetched ceil(max_results / 20) pages; and it never fetches more pages
\* than that, the first page apart
C20_StopsOnLimitTokenOrPageCap ==
    \A r \in Runs :
        /\ EndedByLoopTest(r) =>
              \/ Len(leads[r]) >= rq[r].limit
              \/ ~tok[r]
              \/ attempts[r] >= (rq[r].limit + 19) \div 20
        /\ attempts[r] <= 1 \/ attempts[r] <= (rq[r].limit + 19) \div 20

C20_Witness ==
    \E r \in Runs :
        /\ EndedByLoopTest(r)
        /\ tok[r] /\ Len(leads[r]) < rq[r].limit
        /\ rq[r].limit = 21 /\ attempts[r] = 2

----------------------------------------------------------------------------
(* Pacing and failures of the scrape request *)

\* C21: a page query that carries a next-page token is issued only out of
\* the 2 s wait, and that wait is entered at the end of the page whose
\* response supplied the token
C21_CooldownBeforeToken ==
    [][\A r \in Runs :
          /\ pc'[r] = "page" /\ tok'[r]
             /\ (pc[r] # "page" \/ attempts'[r] # attempts[r]) =>
                pc[r] = "cooldown" /\ tok[r] /\ attempts'[r] = attempts[r]
          /\ pc'[r] = "cooldown" /\ pc[r] # "cooldown" =>
                tok'[r] /\ attempts'[r] = attempts[r] + 1]_vars

C21_Witness ==
    \E r \in Runs : pc[r] = "page" /\ tok[r] /\ attempts[r] = 1

\* The page request of r ends in an error: a status other than OK and
\* ZERO_RESULTS, or a rejected fetch or a body that is not JSON
PageFetchFailed(r) ==
    pc[r] = "page" /\ pc'[r] = "done" /\ (broke'[r] \/ resp'[r] = "error500")

\* C22: a page request that ends in an error stops the pagination, is not
\* tried again, and the run answers success with the leads of its earlier
\* pages
C22_PageErrorKeepsLeads ==
    [][\A r \in Runs :
          PageFetchFailed(r) =>
              /\ resp'[r] = "ok"
              /\ leads'[r] = leads[r]
              /\ attempts'[r] = attempts[r]]_vars

\* C23: a request that finds no API key answers the error of line 79
\* without a page or details request (no page counted, no place looked up,
\* no lead collected), and the step leaves every record and the index alone
C23_MissingKeyFatal ==
    /\ [](\A r \in Runs :
            key[r] = "missing" =>
                /\ pc[r] = "done" /\ resp[r] = "error500key"
                /\ attempts[r] = 0 /\ cand[r] = NoCand /\ leads[r] = <<>>)
    /\ [][\A r \in Runs :
            key'[r] = "missing" /\ key[r] # "missing" =>
                store' = store /\ ids' = ids]_vars

C23_Witness ==
    \E r \in Runs :
        /\ key[r] = "missing" /\ resp[r] = "error500key"
        /\ \E p \in ids : store[p] # NoLead

\* C24: a details request that fails, by its status or by throwing, only
\* skips its place: the handler goes on to the store or to the delay that
\* ends the place, never to a response
C24_DetailFailureSkips ==
    [][\A r \in Runs :
          pc[r] = "details" /\ pc'[r] # pc[r] =>
              pc'[r] \in {"get", "delay"} /\ resp'[r] # "error500"]_vars

\* C25: whenever a scrape request has stopped, by a response of success or
\* of failure, a lead record exists exactly when its id is in the index
C25_ConsistentAtStop ==
    \A r \in Runs :
        pc[r] = "done" =>
            \A p \in PlaceIds : store[p] # NoLead <=> p \in ids

----------------------------------------------------------------------------
(* Tiers and failures of the read routes *)

\* The tier mapping of the specification, and the tier a badge label names
SpecTier(score) ==
    IF score >= 18 THEN "HOT"
    ELSE IF score >= 12 THEN "WARM"
    ELSE IF score >= 7 THEN "MEDIUM" ELSE "LOW"
TierOfLabel(label) == IF label = "MED" THEN "MEDIUM" ELSE label

\* C26: for every lead a list response shows, the badge label of either
\* dashboard, the list filters and the stats counters all give the tier of
\* the one mapping: 18 and more HOT, 12 to 17 WARM, 7 to 11 MEDIUM, less LOW
C26_OneTierMapping ==
    vlast.kind = "list" /\ vlast.status = 200 =>
        \A i \in 1..Len(vlast.body) :
            LET score == OrZero(vlast.body[i].lead_score)
            IN /\ TierOfLabel(getTier(score)) = SpecTier(score)
               /\ TierOfLabel(getTierDashboard(score)) = SpecTier(score)
               /\ FilterKeeps("hot", score) <=> SpecTier(score) = "HOT"
               /\ FilterKeeps("warm", score) <=> SpecTier(score) = "WARM"
               /\ FilterKeeps("medium", score) <=> SpecTier(score) = "MEDIUM"
               /\ StatsBucket(score) = "hot" <=> SpecTier(score) = "HOT"
               /\ StatsBucket(score) = "warm" <=> SpecTier(score) = "WARM"

\* C29: a list, stats or export request one of whose kv calls rejected
\* answers with an error status, not with a payload of success
C29_FailuresSurfaced == vlast.threw => vlast.status >= 400

----------------------------------------------------------------------------
(* Request pacing *)

\* C27: within a scrape request, a step that sends a page or details
\* request to the Places API is never followed directly by another one: a
\* delay comes in between
C27_RequestsPaced ==
    [][\A r \in Runs :
          pc[r] \in {"page", "details"} /\ pc'[r] # pc[r] =>
              pc'[r] \notin {"page", "details"}]_vars

----------------------------------------------------------------------------
(* The result limit *)

\* C30: a scrape request collects and writes at most `limit` leads, and
\* the leads of its success response (leads_found is their number) are as
\* many as the leads it wrote to the store
C30_ResultLimit ==
    \A r \in Runs :
        key[r] = "set" =>
            /\ Len(leads[r]) <= rq[r].limit
            /\ added[r] <= rq[r].limit
            /\ pc[r] = "done" /\ resp[r] = "ok" => Len(leads[r]) = added[r]

C30_Witness ==
    \E r \in Runs :
        /\ pc[r] = "done" /\ resp[r] = "ok"
        /\ rq[r].limit = 1 /\ Len(leads[r]) = 1 /\ added[r] = 1

----------------------------------------------------------------------------
(* The enrichment chain *)

\* The published scenario: A finds nothing, B and C each know a phone
ChainScenario == <<"not-found", "555-1234", "555-9999">>

\* The providers of the list that know a phone
Knowing(answers) ==
    {i \in 1..Len(answers) :
        answers[i] \notin {"not-found", "error", "timeout"}}

\* C28: the providers are invoked in configured order, one after another;
\* the chain ends with the phone of the first provider that knows one, having
\* invoked no provider behind it, and with no phone after invoking them all
\* when none knows one (a provider that fails or times out is passed over);
\* on the published scenario the phone is "555-1234" and C is not invoked
C28_ChainShortCircuit ==
    /\ chain.called = [i \in 1..Len(chain.called) |-> i]
    /\ chain.pc = "done" =>
          LET knowing == Knowing(chain.answers)
          IN IF knowing = {}
             THEN /\ chain.phone = ""
                  /\ Len(chain.called) = Len(chain.answers)
             ELSE \E first \in knowing :
                      /\ \A i \in knowing : first <= i
                      /\ chain.phone = chain.answers[first]
                      /\ Len(chain.called) = first
    /\ chain.pc = "done" /\ chain.answers = ChainScenario =>
          chain.phone = "555-1234" /\ chain.called = <<1, 2>>

C28_Witness ==
    /\ chain.pc = "done"
    /\ chain.answers = <<"timeout", "555-1234", "555-9999">>
    /\ chain.phone = "555-1234"

----------------------------------------------------------------------------
(* Termination *)

\* The most page queries a request with this limit may issue
PageCap(limit) ==
    IF (limit + 19) \div 20 > 1 THEN (limit + 19) \div 20 ELSE 1

\* C31: a scrape request that has started comes to its response, whatever
\* the pages carry; it issues at least one page query and at most
\* max(1, ceil(limit / 20)), and never one for a page it has queried: when
\* it is about to query, it has queried once for every page counted
C31_ScrapeTerminates ==
    /\ \A r \in Runs : pc[r] \notin {"idle", "done"} ~> pc[r] = "done"
    /\ [](\A r \in Runs :
            /\ queries[r] <= PageCap(rq[r].limit)
            /\ pc[r] = "done" /\ key[r] = "set" => queries[r] >= 1
            /\ pc[r] = "page" => queries[r] = attempts[r]
            /\ queries[r] \in {attempts[r], attempts[r] + 1})

C31_Witness ==
    \E r \in Runs :
        /\ pc[r] = "done" /\ resp[r] = "ok" /\ ~broke[r]
        /\ rq[r].limit = 21 /\ queries[r] = PageCap(21)
        /\ tok[r] /\ leads[r] = <<>> /\ added[r] = 0

----------------------------------------------------------------------------
(* The index under interleaved requests *)

\* C32: once the scrape and DELETE requests, none of which failed, have all
\* completed, every lead record has its id in the index
C32_RecordsIndexedAtRest ==
    ~InFlight => \A p \in PlaceIds : store[p] # NoLead => p \in ids

----------------------------------------------------------------------------
(* The score of a persisted lead *)

\* C33: every persisted lead has a lead_score from 4 to 29: the review
\* term is at least 1, the no-website bonus of 3 is always part of the score
\* and the largest sum is 10 + 9 + 3 + 7, below the clamp at 30
C33_PersistedScoreRange ==
    \A p \in PlaceIds :
        store[p] # NoLead =>
            4 <= store[p].lead_score /\ store[p].lead_score <= 29

\* The leads the index reaches at rest whose score lies in lo..hi
IndexedInBand(lo, hi) ==
    {p \in ids : /\ store[p] # NoLead
                 /\ OrZero(store[p].lead_score) >= lo
                 /\ OrZero(store[p].lead_score) <= hi}

\* The ids of a response body, as a set
IdSet(body) == {body[i].id : i \in 1..Len(body)}

\* C34: the list filters partition by tier. A list response holds each lead
\* once; under hot, warm and medium it holds exactly the indexed leads of
\* score >= 18, 12..17 and 7..11, so a lead of score below 7 is in none of
\* them; under any other filter value it is a response the unfiltered list
\* gives on the same store; and for every order the index is read in, the
\* hot, warm and medium lists are pairwise disjoint.
C34_FiltersPartition ==
    vlast.kind = "list" /\ ~vlast.threw =>
        LET f == vlast.param
            got == IdSet(vlast.body)
        IN /\ Cardinality(got) = Len(vlast.body)
           /\ f = "hot" => got = IndexedInBand(18, 30)
           /\ f = "warm" => got = IndexedInBand(12, 17)
           /\ f = "medium" => got = IndexedInBand(7, 11)
           /\ f \in {"hot", "warm", "medium"} =>
                  got \cap IndexedInBand(0, 6) = {}
           /\ f \notin {"hot", "warm", "medium"} =>
                  /\ got = IndexedInBand(0, 30)
                  /\ \E order \in Orders(ids) :
                         vlast.body = ListBody(order, "all")
           /\ \A order \in Orders(ids) :
                  LET h == IdSet(ListBody(order, "hot"))
                      w == IdSet(ListBody(order, "warm"))
                      m == IdSet(ListBody(order, "medium"))
                  IN /\ h \cap w = {} /\ h \cap m = {} /\ w \cap m = {}
                     /\ h \cup w \cup m =
                            IdSet(ListBody(order, "all")) \
                                IndexedInBand(0, 6)

\* A medium list that returned one lead while the index also reaches a lead
\* of score below 7 and one of score 12 or more
C34_Witness ==
    /\ vlast.kind = "list" /\ ~vlast.threw /\ vlast.param = "medium"
    /\ Len(vlast.body) = 1
    /\ IndexedInBand(0, 6) # {}
    /\ IndexedInBand(12, 30) # {}

\* C35: the stats agree with the list on the same store. For a stats
\* response and every order the index is read in, total is the length of the
\* unfiltered list, hot the length of the hot list, warm the length of the
\* warm list, and hot + warm <= total; index entries whose record is missing
\* count in neither.
C35_StatsAgreeWithList ==
    vlast.kind = "stats" /\ ~vlast.threw =>
        /\ \A order \in Orders(ids) :
               /\ vlast.body.total = Len(ListBody(order, "all"))
               /\ vlast.body.hot = Len(ListBody(order, "hot"))
               /\ vlast.body.warm = Len(ListBody(order, "warm"))
        /\ vlast.body.hot + vlast.body.warm <= vlast.body.total
        /\ vlast.body.total = Cardinality({p \in ids : store[p] # NoLead})

\* Stats over an index of three entries, one of them without a record, one
\* a lead of score 18 and one a lead of score 12 to 17
C35_Witness ==
    /\ vlast.kind = "stats" /\ ~vlast.threw
    /\ Cardinality(ids) = 3
    /\ \E p \in ids : store[p] = NoLead
    /\ \E p \in ids : store[p] # NoLead /\ store[p].lead_score = 18
    /\ vlast.body.total = 2 /\ vlast.body.hot = 1 /\ vlast.body.warm = 1

\* C36: the scrape guard of the single-app page. isScraping is set
\* exactly while a startScraping call awaits its request: every request was
\* sent with the flag set, and the flag is reset when the request settles
\* through the success branch, the error-payload branch or the catch block;
\* no two calls await a request at once; and whenever the flag is set it is
\* eventually reset, so the Start button is enabled again.
C36_ScrapeGuard ==
    /\ [](/\ home.isScraping <=> HomeAwaiting # {}
          /\ \A i \in 1..Len(home.calls) : home.calls[i].flagged
          /\ Cardinality(HomeAwaiting) <= 1
          /\ ButtonDisabled(home.isScraping) <=> HomeAwaiting # {})
    /\ home.isScraping ~> ~home.isScraping

\* Three runs are over, one through each way of settling, the last by a
\* rejected request, and the button is enabled
C36_Witness ==
    /\ Len(home.calls) = 3
    /\ ~home.isScraping
    /\ HomeAwaiting = {}
    /\ home.calls[1].path = "success"
    /\ home.calls[2].path = "error"
    /\ home.calls[3].path = "catch"
    /\ home.scrapeProgress.message = "Network error"

\* Where the j-th chain of checkStatus calls is, if there is one
PollPc(j) == IF j <= Len(dash.polls) THEN dash.polls[j].pc ELSE "none"

\* C37: the status loop of the polling dashboard. A chain of checkStatus
\* calls whose last status said is_running has its timer set or its next
\* request out (sent or answered and being read), and the timer leads to
\* the next request; a chain whose last
\* status said not running has stopped; and whenever the server's run has
\* finished, the UI eventually shows is_running false, which enables the
\* Start button, whatever happened to the status requests in between.
C37_PollingFollowsRun ==
    /\ [](\A j \in 1..Len(dash.polls) :
            /\ dash.polls[j].last = "running" =>
                   dash.polls[j].pc \in {"timer", "fetch", "json"}
            /\ dash.polls[j].last = "idle" => dash.polls[j].pc = "stopped")
    /\ \A j \in 1..MaxClicks : (PollPc(j) = "timer") ~> (PollPc(j) = "fetch")
    /\ (dash.server = "finished")
           ~> (~dash.status.is_running /\ ~ButtonDisabled(dash.status.is_running))

============================================================================
